---- MODULE Spec2Model ----
(***************************************************************************)
(* jupyter_events: the EventLogger of src/jupyter_events/logger.py, with   *)
(* the collaborators it calls: traitlets (lazy trait defaults), the        *)
(* standard logging module (the process-wide cache of named loggers) and   *)
(* the SchemaRegistry / Schema pair, whose code is not part of the source  *)
(* tree and is modelled from sections 4.1 and 4.2 of the specification.    *)
(***************************************************************************)
EXTENDS Integers, Sequences, FiniteSets, TLC

VARIABLES
    life,             \* instance -> "unborn" | "alive" | "discarded"
    ident,            \* instance -> id(self) of a live instance
    handlers,         \* instance -> the `handlers` trait (a list of sinks)
    allowed_policies, \* instance -> the `allowed_policies` trait
    schema_registry,  \* instance -> the `schema_registry` trait (lazy default)
    loggerDict,       \* logging's cache: logger name -> that logger's handlers
    attached,         \* sink -> the instances that added it (history)
    last,             \* the last call: arguments, outcome, what it did
    frames            \* thread -> the emit call it runs, step by step

vars == <<life, ident, handlers, allowed_policies, schema_registry,
          loggerDict, attached, last, frames>>

(***************************************************************************)
(* The universe of values the operations are called with.                  *)
(***************************************************************************)
Instances == {"el0", "el1"}
ObjectIds == {"0x7f01", "0x7f02"}
Sinks     == {"handler0", "handler1"}
Threads   == {"t1", "t2"}
NoId      == "freed"

MaxHandlers == 2

JStr(s) == <<"string", s>>
JInt(n) == <<"integer", n>>

EVENTS_METADATA_VERSION == 1

SchemaIds == {"test/test0", "test/test1"}
Versions  == {1}

EmptyDict == <<>>

HasKey(d, k) == k \in DOMAIN d

\* dict without key k (del d[k])
Without(d, k) == [x \in DOMAIN d \ {k} |-> d[x]]

\* Python's dict.update: the keys of `other` win
Update(d, other) == other @@ d

\* ----- lists
Contains(seq, x) == \E n \in 1..Len(seq) : seq[n] = x

RECURSIVE RemoveFirst(_, _)
RemoveFirst(seq, x) ==
    IF seq = <<>> THEN <<>>
    ELSE IF Head(seq) = x THEN Tail(seq)
    ELSE <<Head(seq)>> \o RemoveFirst(Tail(seq), x)

SeqsUpTo(S, n) == UNION {[1..m -> S] : m \in 0..n}

(***************************************************************************)
(* JSON documents: every value carries its JSON type, <<type, value>>.     *)
(***************************************************************************)
JArr(S) == <<"array", S>>
JObj(d) == <<"object", d>>
TypeOf(v)  == v[1]
ValueOf(v) == v[2]

\* names under the reserved prefix `__`
Reserved(name) == Len(name) >= 2 /\ SubSeq(name, 1, 2) = "__"

StringProp(policies) ==
    ("type" :> JStr("string")) @@ ("title" :> JStr("test"))
        @@ ("redactionPolicies" :> JArr(policies))

EnumProp == ("enum" :> JArr({JStr("success"), JStr("failure")}))

UntypedProp == ("title" :> JStr("test"))

PropsSomething == ("something" :> StringProp({"unrestricted"}))

PropsStatus ==
    ("something" :> StringProp({"pii"})) @@ ("status" :> EnumProp)

PropsMessage == ("message" :> StringProp({"unrestricted"}))

PropsReserved == ("__fail__" :> StringProp({"unrestricted"}))

PropsUntyped == ("something" :> UntypedProp)

Body(props) ==
    ("redactionPolicies" :> JArr({"unrestricted"})) @@ ("properties" :> JObj(props))

Document(id, version, props) ==
    ("id" :> JStr(id)) @@ ("version" :> JInt(version)) @@ Body(props)

WellFormedDocuments ==
    {Document(id, v, props) :
        id \in SchemaIds, v \in Versions,
        props \in {PropsSomething, PropsStatus, PropsMessage}}

MalformedDocuments ==
    { Body(EmptyDict),                                          \* no id, no version
      ("id" :> JStr("test/test0")) @@ Body(PropsSomething),     \* no version
      ("id" :> JStr("test/test0")) @@ ("version" :> JStr("1"))
          @@ Body(PropsSomething),                              \* version mistyped
      Document("test/test0", 1, PropsReserved),
      Document("test/test1", 1, PropsUntyped),
      ("id" :> JStr("test/test1")) @@ ("version" :> JInt(1))
          @@ ("redactionPolicies" :> JStr("unrestricted"))
          @@ ("properties" :> JObj(PropsSomething)) }           \* policies not a list

Documents == WellFormedDocuments \cup MalformedDocuments

\* a schema file: its text either parses (JSON or YAML) to a document or not
Files == { [parses |-> TRUE, document |-> Document("test/test0", 1, PropsSomething)],
           [parses |-> TRUE, document |-> Document("test/test0", 1, PropsReserved)],
           [parses |-> FALSE, document |-> EmptyDict] }

AllowedPolicySets == {{"all"}, {"unrestricted"}}

Events ==
    { ("something" :> JStr("blah")),
      ("something" :> JStr("blah")) @@ ("status" :> JStr("success")),
      ("something" :> JStr("blah")) @@ ("status" :> JStr("hi")),
      ("something" :> JInt(7)),
      ("something" :> JStr("blah")) @@ ("__schema__" :> JStr("evil")),
      ("message" :> JStr("hello")) }

\* datetime values: the second and microsecond of one fixed day
DateTime(s, us) == [second |-> s, microsecond |-> us]
Clock     == {DateTime(1, 0), DateTime(2, 5)}
Overrides == {DateTime(0, 7)}

\* datetime.isoformat(): the fraction is printed only when it is not zero
isoformat(t) ==
    "2022-08-01T00:00:0" \o ToString(t.second)
        \o (IF t.microsecond = 0 THEN "" ELSE ".00000" \o ToString(t.microsecond))

(***************************************************************************)
(* SchemaRegistry and Schema (specification, sections 4.1 and 4.2).        *)
(***************************************************************************)
NoError == "none"

PropertiesOf(d) ==
    IF HasKey(d, "properties") /\ TypeOf(d["properties"]) = "object"
    THEN ValueOf(d["properties"]) ELSE EmptyDict

PolicyListOk(d) ==
    HasKey(d, "redactionPolicies") => TypeOf(d["redactionPolicies"]) = "array"

\* the meta-schema's checks, in order; the offending path, or NoError
DefinitionError(d) ==
    IF ~(HasKey(d, "id") /\ TypeOf(d["id"]) = "string") THEN "id"
    ELSE IF ~(HasKey(d, "version") /\ TypeOf(d["version"]) = "integer") THEN "version"
    ELSE IF \E n \in DOMAIN PropertiesOf(d) : Reserved(n) THEN "properties/__"
    ELSE IF \E n \in DOMAIN PropertiesOf(d) :
                ~(HasKey(PropertiesOf(d)[n], "type") \/ HasKey(PropertiesOf(d)[n], "enum"))
         THEN "properties/type"
    ELSE IF ~PolicyListOk(d) \/ \E n \in DOMAIN PropertiesOf(d) : ~PolicyListOk(PropertiesOf(d)[n])
         THEN "redactionPolicies"
    ELSE NoError

KeyOf(d) == <<ValueOf(d["id"]), ValueOf(d["version"])>>

PoliciesOf(d) ==
    IF HasKey(d, "redactionPolicies") THEN ValueOf(d["redactionPolicies"]) ELSE {}

CompileProperty(p) ==
    [type     |-> IF HasKey(p, "type") THEN ValueOf(p["type"]) ELSE "enum",
     enum     |-> IF HasKey(p, "enum") THEN ValueOf(p["enum"]) ELSE {},
     explicit |-> HasKey(p, "redactionPolicies"),
     redactionPolicies |-> PoliciesOf(p)]

\* the immutable Schema compiled from a validated definition
Compile(d, allowed) ==
    [id      |-> ValueOf(d["id"]),
     version |-> ValueOf(d["version"]),
     schemaRedactionPolicies |-> PoliciesOf(d),
     properties |-> [n \in DOMAIN PropertiesOf(d) |-> CompileProperty(PropertiesOf(d)[n])],
     allowed_policies |-> allowed]

\* SchemaRegistry.register: the error it raises and the mapping it leaves
register(registry, d) ==
    IF DefinitionError(d) # NoError
    THEN [raised |-> "SchemaDefinitionError", schemas |-> registry.schemas]
    ELSE IF KeyOf(d) \in DOMAIN registry.schemas
    THEN [raised |-> "DuplicateSchemaError", schemas |-> registry.schemas]
    ELSE [raised |-> NoError,
          schemas |-> (KeyOf(d) :> Compile(d, registry.allowed_policies))
                          @@ registry.schemas]

\* SchemaRegistry.register_from_file
register_from_file(registry, f) ==
    IF ~f.parses
    THEN [raised |-> "SchemaDefinitionError", schemas |-> registry.schemas]
    ELSE register(registry, f.document)

\* SchemaRegistry.contains
contains(registry, id, version) == <<id, version>> \in DOMAIN registry.schemas

\* SchemaRegistry.get, for a key the caller has found to be contained
get(registry, id, version) == registry.schemas[<<id, version>>]

ValueConforms(p, v) ==
    IF p.type = "enum" THEN v \in p.enum ELSE TypeOf(v) = p.type

\* Schema.validate: NoError, or the error it raises
validate(schema, event) ==
    IF /\ \A n \in DOMAIN schema.properties : n \in DOMAIN event
       /\ \A n \in DOMAIN event \cap DOMAIN schema.properties :
              ValueConforms(schema.properties[n], event[n])
       /\ \A n \in DOMAIN event : ~Reserved(n)
    THEN NoError
    ELSE "EventValidationError"

EffectivePolicies(schema, n) ==
    IF n \in DOMAIN schema.properties /\ schema.properties[n].explicit
    THEN schema.properties[n].redactionPolicies
    ELSE schema.schemaRedactionPolicies

Retained(schema, n, allowed) ==
    "all" \in allowed \/ EffectivePolicies(schema, n) \cap allowed # {}

\* Schema.enforce_redaction_policies: the event as it is left, in place
enforce_redaction_policies(schema, event) ==
    [n \in {m \in DOMAIN event : Retained(schema, m, schema.allowed_policies)}
        |-> event[n]]

(***************************************************************************)
(* The logging module and the JSON formatter add_handler installs.         *)
(***************************************************************************)
\* logging.Logger.addHandler: a handler is attached to a logger at most once
addHandler(hdlrs, h) == IF Contains(hdlrs, h) THEN hdlrs ELSE Append(hdlrs, h)

\* logging.Logger.removeHandler
removeHandler(hdlrs, h) == RemoveFirst(hdlrs, h)

JNull == <<"null", "null">>

\* JsonFormatter: the record's fields are the emitted dict's, next to the
\* free-text `message` (null for a dict)
log_record(capsule) == Update(("message" :> JNull), capsule)

\* add_handler's _skip_message, the formatter's serializer
_skip_message(record) == JObj(Without(record, "message"))

\* json.loads of a sink's line
loads(line) == ValueOf(line)

(***************************************************************************)
(* EventLogger                                                             *)
(***************************************************************************)
Alive(i) == life[i] = "alive"

NotCreated == [created |-> FALSE, allowed_policies |-> {}, schemas |-> EmptyDict]

\* reading the schema_registry trait: its default is made on the first read
_default_schema_registry(i) ==
    IF schema_registry[i].created THEN schema_registry[i]
    ELSE [created |-> TRUE, allowed_policies |-> allowed_policies[i],
          schemas |-> EmptyDict]

NoDelivery == [s \in Sinks |-> <<>>]

Call(op, i, args) ==
    [op |-> op, el |-> i, args |-> args, raised |-> NoError, returned |-> <<>>,
     event |-> EmptyDict, steps |-> <<>>, delivered |-> NoDelivery, utcnow |-> {}]

\* the two lists after add_handler(h)
AddHandlerLists(lists, h) ==
    [log      |-> addHandler(lists.log, h),
     handlers |-> IF Contains(lists.handlers, h) THEN lists.handlers
                  ELSE Append(lists.handlers, h)]

RECURSIVE AddAll(_, _)
AddAll(lists, hs) ==
    IF hs = <<>> THEN lists ELSE AddAll(AddHandlerLists(lists, Head(hs)), Tail(hs))

FreeIds == ObjectIds \ {ident[j] : j \in {k \in Instances : Alive(k)}}

\* EventLogger(handlers=hs, allowed_policies=ap)
Construct(i, hs, ap) ==
    /\ life[i] = "unborn"
    /\ \E a \in FreeIds :
         LET lists == AddAll([log |-> loggerDict[a], handlers |-> hs], hs) IN
         /\ ident' = [ident EXCEPT ![i] = a]
         /\ handlers' = [handlers EXCEPT ![i] = lists.handlers]
         /\ loggerDict' = [loggerDict EXCEPT ![a] = lists.log]
    /\ life' = [life EXCEPT ![i] = "alive"]
    /\ allowed_policies' = [allowed_policies EXCEPT ![i] = ap]
    /\ attached' = [s \in Sinks |->
                       IF Contains(hs, s) THEN attached[s] \cup {i} ELSE attached[s]]
    /\ last' = Call("__init__", i, <<hs, ap>>)
    /\ UNCHANGED <<schema_registry, frames>>

\* the last reference to the instance is dropped and the object is freed; the
\* logger named after its id stays in logging's cache
Discard(i) ==
    /\ Alive(i)
    /\ life' = [life EXCEPT ![i] = "discarded"]
    /\ ident' = [ident EXCEPT ![i] = NoId]
    /\ handlers' = [handlers EXCEPT ![i] = <<>>]
    /\ allowed_policies' = [allowed_policies EXCEPT ![i] = {"all"}]
    /\ schema_registry' = [schema_registry EXCEPT ![i] = NotCreated]
    /\ last' = Call("del", i, <<>>)
    /\ UNCHANGED <<loggerDict, attached, frames>>

\* el.allowed_policies = ap
set_allowed_policies(i, ap) ==
    /\ Alive(i)
    /\ ap # allowed_policies[i]
    /\ allowed_policies' = [allowed_policies EXCEPT ![i] = ap]
    /\ last' = Call("allowed_policies", i, ap)
    /\ UNCHANGED <<life, ident, handlers, schema_registry, loggerDict, attached, frames>>

\* register_schema replacing the stored schema where the registry reports a duplicate
register_schema_replace(i, d) ==
    /\ Alive(i)
    /\ LET registry == _default_schema_registry(i)
           r == register(registry, d)
           dup == r.raised = "DuplicateSchemaError"
       IN
       /\ schema_registry' = [schema_registry EXCEPT
              ![i] = [registry EXCEPT !.schemas =
                         IF dup THEN (KeyOf(d) :> Compile(d, registry.allowed_policies)) @@ @
                         ELSE r.schemas]]
       /\ last' = [Call("register_schema", i, d) EXCEPT
                       !.raised = IF dup THEN NoError ELSE r.raised]
    /\ UNCHANGED <<life, ident, handlers, allowed_policies, loggerDict, attached, frames>>

\* register_schema catching the registry's errors
register_schema_swallow(i, d) ==
    /\ Alive(i)
    /\ LET r == register(_default_schema_registry(i), d) IN
       /\ schema_registry' = [schema_registry EXCEPT
              ![i] = [_default_schema_registry(i) EXCEPT !.schemas = r.schemas]]
       /\ last' = Call("register_schema", i, d)
    /\ UNCHANGED <<life, ident, handlers, allowed_policies, loggerDict, attached, frames>>

\* register_schema registering with a registry made anew on every call
register_schema_fresh(i, d) ==
    /\ Alive(i)
    /\ LET fresh == [created |-> TRUE, allowed_policies |-> allowed_policies[i],
                     schemas |-> EmptyDict]
           r == register(fresh, d)
       IN
       /\ schema_registry' = [schema_registry EXCEPT
              ![i] = [fresh EXCEPT !.schemas = r.schemas]]
       /\ last' = [Call("register_schema", i, d) EXCEPT !.raised = r.raised]
    /\ UNCHANGED <<life, ident, handlers, allowed_policies, loggerDict, attached, frames>>

register_schema(i, d) ==
    /\ Alive(i)
    /\ LET r == register(_default_schema_registry(i), d) IN
       /\ schema_registry' = [schema_registry EXCEPT
              ![i] = [_default_schema_registry(i) EXCEPT !.schemas = r.schemas]]
       /\ last' = [Call("register_schema", i, d) EXCEPT !.raised = r.raised]
    /\ UNCHANGED <<life, ident, handlers, allowed_policies, loggerDict, attached, frames>>

register_schema_file(i, f) ==
    /\ Alive(i)
    /\ LET r == register_from_file(_default_schema_registry(i), f) IN
       /\ schema_registry' = [schema_registry EXCEPT
              ![i] = [_default_schema_registry(i) EXCEPT !.schemas = r.schemas]]
       /\ last' = [Call("register_schema_file", i, f) EXCEPT !.raised = r.raised]
    /\ UNCHANGED <<life, ident, handlers, allowed_policies, loggerDict, attached, frames>>

add_handler(i, h) ==
    /\ Alive(i)
    /\ Len(handlers[i]) < MaxHandlers \/ Contains(handlers[i], h)
    /\ LET lists == AddHandlerLists([log |-> loggerDict[ident[i]],
                                     handlers |-> handlers[i]], h) IN
       /\ loggerDict' = [loggerDict EXCEPT ![ident[i]] = lists.log]
       /\ handlers' = [handlers EXCEPT ![i] = lists.handlers]
    /\ attached' = [attached EXCEPT ![h] = @ \cup {i}]
    /\ last' = Call("add_handler", i, h)
    /\ UNCHANGED <<life, ident, allowed_policies, schema_registry, frames>>

remove_handler(i, h) ==
    /\ Alive(i)
    /\ loggerDict' = [loggerDict EXCEPT ![ident[i]] = removeHandler(@, h)]
    /\ handlers' = [handlers EXCEPT ![i] =
                       IF Contains(@, h) THEN RemoveFirst(@, h) ELSE @]
    /\ last' = Call("remove_handler", i, h)
    /\ UNCHANGED <<life, ident, allowed_policies, schema_registry, attached, frames>>

\* emit taking the clock's time whether or not an override is given
TimestampNow(timestamp_override, now) == now

\* emit's timestamp: the override when one is given, else utcnow()
Timestamp(timestamp_override, now) ==
    IF timestamp_override = {} THEN now ELSE CHOOSE t \in timestamp_override : TRUE

\* the empty event capsule
EmptyCapsule(timestamp, schema_name, version) ==
    ("__timestamp__" :> JStr(isoformat(timestamp) \o "Z"))
        @@ ("__schema__" :> JStr(schema_name))
        @@ ("__schema_version__" :> JInt(version))
        @@ ("__metadata_version__" :> JInt(EVENTS_METADATA_VERSION))

\* Logger.info(capsule): every handler of the logger formats and writes it
callHandlers(hdlrs, capsule) ==
    [s \in Sinks |-> IF Contains(hdlrs, s)
                     THEN <<_skip_message(log_record(capsule))>> ELSE <<>>]

\* the guard with `and` for `or`
NothingToDoAnd(hdlrs, registry, schema_name, version) ==
    hdlrs = <<>> /\ ~contains(registry, schema_name, version)

\* the guard without the registry test
NothingToDoNoSinks(hdlrs, registry, schema_name, version) == hdlrs = <<>>

\* emit's guard: no handler is set up, or the schema is not registered
NothingToDo(hdlrs, registry, schema_name, version) ==
    hdlrs = <<>> \/ ~contains(registry, schema_name, version)

Noop(event) ==
    [raised |-> NoError, returned |-> <<>>, event |-> event, steps |-> <<>>,
     delivered |-> NoDelivery]

\* emit writing the capsule before it validates the event
ProcessInfoFirst(registry, hdlrs, schema_name, version, event, timestamp) ==
    LET capsule == EmptyCapsule(timestamp, schema_name, version)
        schema  == get(registry, schema_name, version)
        full    == Update(capsule, event)
    IN  IF ~contains(registry, schema_name, version)
        THEN [Noop(event) EXCEPT !.raised = "LookupError"]
        ELSE [raised |-> validate(schema, event),
              returned |-> IF validate(schema, event) = NoError THEN <<full>> ELSE <<>>,
              event |-> event, steps |-> <<"capsule", "get", "update", "info", "validate">>,
              delivered |-> callHandlers(hdlrs, full)]

\* emit without the call of schema.validate
ProcessUnvalidated(registry, hdlrs, schema_name, version, event, timestamp) ==
    LET capsule  == EmptyCapsule(timestamp, schema_name, version)
        schema   == get(registry, schema_name, version)
        redacted == enforce_redaction_policies(schema, event)
        full     == Update(capsule, redacted)
    IN  IF ~contains(registry, schema_name, version)
        THEN [Noop(event) EXCEPT !.raised = "LookupError",
                                 !.steps = <<"capsule", "get">>]
        ELSE [raised |-> NoError, returned |-> <<full>>, event |-> redacted,
              steps |-> <<"capsule", "get", "redact", "update", "info">>,
              delivered |-> callHandlers(hdlrs, full)]

\* emit redacting the event before it validates what is left of it
ProcessRedactFirst(registry, hdlrs, schema_name, version, event, timestamp) ==
    LET capsule  == EmptyCapsule(timestamp, schema_name, version)
        schema   == get(registry, schema_name, version)
        redacted == enforce_redaction_policies(schema, event)
        full     == Update(capsule, redacted)
    IN  IF ~contains(registry, schema_name, version)
        THEN [Noop(event) EXCEPT !.raised = "LookupError",
                                 !.steps = <<"capsule", "get">>]
        ELSE IF validate(schema, redacted) # NoError
        THEN [Noop(redacted) EXCEPT !.raised = validate(schema, redacted),
                                    !.steps = <<"capsule", "get", "redact", "validate">>]
        ELSE [raised |-> NoError, returned |-> <<full>>, event |-> redacted,
              steps |-> <<"capsule", "get", "redact", "validate", "update", "info">>,
              delivered |-> callHandlers(hdlrs, full)]

\* emit past its guard: what it raises or returns, how it leaves the caller's
\* event, the steps it took and the lines it wrote
Process(registry, hdlrs, schema_name, version, event, timestamp) ==
    LET capsule  == EmptyCapsule(timestamp, schema_name, version)
        schema   == get(registry, schema_name, version)
        redacted == enforce_redaction_policies(schema, event)
        full     == Update(capsule, redacted)
    IN  IF ~contains(registry, schema_name, version)
        THEN [Noop(event) EXCEPT !.raised = "LookupError",
                                 !.steps = <<"capsule", "get">>]
        ELSE IF validate(schema, event) # NoError
        THEN [Noop(event) EXCEPT !.raised = validate(schema, event),
                                 !.steps = <<"capsule", "get", "validate">>]
        ELSE [raised |-> NoError, returned |-> <<full>>, event |-> redacted,
              steps |-> <<"capsule", "get", "validate", "redact", "update", "info">>,
              delivered |-> callHandlers(hdlrs, full)]

\* emit taking the schema out of the registry (pop) where it reads it (get)
emit_pop(i, schema_name, version, event, timestamp_override, now) ==
    LET args == [schema_name |-> schema_name, version |-> version,
                 event |-> event, timestamp_override |-> timestamp_override]
        registry == _default_schema_registry(i)
        nothing == NothingToDo(handlers[i], registry, schema_name, version)
        out == IF nothing THEN Noop(event)
               ELSE Process(registry, loggerDict[ident[i]], schema_name, version,
                            event, Timestamp(timestamp_override, now))
    IN  /\ Alive(i)
        /\ schema_registry' = [schema_registry EXCEPT
               ![i] = IF handlers[i] = <<>> THEN @
                      ELSE IF nothing THEN registry
                      ELSE [registry EXCEPT !.schemas =
                               [k \in DOMAIN @ \ {<<schema_name, version>>} |-> @[k]]]]
        /\ last' = [op |-> "emit", el |-> i, args |-> args, raised |-> out.raised,
                    returned |-> out.returned, event |-> out.event,
                    steps |-> out.steps, delivered |-> out.delivered,
                    utcnow |-> IF nothing \/ timestamp_override # {} THEN {} ELSE {now}]
        /\ UNCHANGED <<life, ident, handlers, allowed_policies, loggerDict, attached, frames>>

emit(i, schema_name, version, event, timestamp_override, now) ==
    LET args == [schema_name |-> schema_name, version |-> version,
                 event |-> event, timestamp_override |-> timestamp_override]
        registry == _default_schema_registry(i)
        out == IF NothingToDo(handlers[i], registry, schema_name, version)
               THEN Noop(event)
               ELSE Process(registry, loggerDict[ident[i]], schema_name, version,
                            event, Timestamp(timestamp_override, now))
    IN  /\ Alive(i)
        \* `or` reads the registry only when there is a handler
        /\ schema_registry' = [schema_registry EXCEPT
               ![i] = IF handlers[i] = <<>> THEN @ ELSE registry]
        /\ last' = [op |-> "emit", el |-> i, args |-> args, raised |-> out.raised,
                    returned |-> out.returned, event |-> out.event,
                    steps |-> out.steps, delivered |-> out.delivered,
                    \* utcnow() is called past the guard, when no override is given
                    utcnow |-> IF NothingToDo(handlers[i], registry, schema_name, version)
                                  \/ timestamp_override # {}
                               THEN {} ELSE {now}]
        /\ UNCHANGED <<life, ident, handlers, allowed_policies, loggerDict, attached, frames>>

(***************************************************************************)
(* emit run by several threads: one step per statement of its body, the    *)
(* locals of each call in the thread's frame.                              *)
(***************************************************************************)
IdleFrame ==
    [pc |-> "idle", el |-> "el0", args |-> <<>>, now |-> {}, event |-> EmptyDict,
     capsule |-> EmptyDict, k |-> 0, raised |-> NoError, returned |-> <<>>,
     delivered |-> NoDelivery]

\* no thread has called emit yet
Idle == \A t \in Threads : frames[t].pc = "idle"

\* the event each thread emits: its own dict
ThreadEvents(t) ==
    IF t = "t1"
    THEN {("something" :> JStr("blah")) @@ ("status" :> JStr("success"))}
    ELSE {("something" :> JStr("blah")) @@ ("status" :> JStr("failure")),
          ("something" :> JStr("blah")) @@ ("status" :> JStr("hi"))}

Step(t, frame) ==
    /\ frames' = [frames EXCEPT ![t] = frame]
    /\ UNCHANGED <<life, ident, handlers, allowed_policies, loggerDict, attached, last>>

\* thread t calls el.emit(schema_name, version, event)
EmitCall(t, i, schema_name, version, event) ==
    /\ frames[t].pc = "idle"
    /\ Alive(i)
    /\ Step(t, [IdleFrame EXCEPT
                   !.pc = "guard", !.el = i, !.event = event,
                   !.args = [schema_name |-> schema_name, version |-> version,
                             event |-> event, timestamp_override |-> {}]])
    /\ UNCHANGED schema_registry

\* line 136: the guard
EmitGuard(t) ==
    LET f == frames[t]
        registry == _default_schema_registry(f.el)
    IN  /\ f.pc = "guard"
        /\ schema_registry' = [schema_registry EXCEPT
               ![f.el] = IF handlers[f.el] = <<>> THEN @ ELSE registry]
        /\ Step(t, [f EXCEPT !.pc =
                       IF NothingToDo(handlers[f.el], registry,
                                      f.args.schema_name, f.args.version)
                       THEN "done" ELSE "capsule"])

\* emit keeping its capsule in an attribute of the logger: the assignment
\* replaces the capsule of every call under way on that logger
EmitCapsuleShared(t, now) ==
    LET f == frames[t]
        capsule == EmptyCapsule(Timestamp(f.args.timestamp_override, now),
                                f.args.schema_name, f.args.version)
    IN  /\ f.pc = "capsule"
        /\ frames' = [u \in Threads |->
               IF u = t THEN [f EXCEPT !.pc = "validate", !.capsule = capsule,
                                       !.now = {now}]
               ELSE IF frames[u].el = f.el /\ frames[u].pc \notin {"idle", "done"}
               THEN [frames[u] EXCEPT !.capsule = capsule]
               ELSE frames[u]]
        /\ UNCHANGED <<life, ident, handlers, allowed_policies, schema_registry,
                       loggerDict, attached, last>>

\* lines 142-151: the timestamp and the empty capsule, a local of the call
EmitCapsule(t, now) ==
    LET f == frames[t] IN
    /\ f.pc = "capsule"
    /\ Step(t, [f EXCEPT
                   !.pc = "validate",
                   !.now = IF f.args.timestamp_override = {} THEN {now} ELSE {},
                   !.capsule = EmptyCapsule(Timestamp(f.args.timestamp_override, now),
                                            f.args.schema_name, f.args.version)])
    /\ UNCHANGED schema_registry

\* lines 152-153: the schema is looked up and the event validated
EmitValidate(t) ==
    LET f == frames[t]
        schema == get(schema_registry[f.el], f.args.schema_name, f.args.version)
    IN  /\ f.pc = "validate"
        /\ Step(t, IF validate(schema, f.event) # NoError
                   THEN [f EXCEPT !.pc = "done", !.raised = validate(schema, f.event)]
                   ELSE [f EXCEPT !.pc = "redact"])
        /\ UNCHANGED schema_registry

\* line 154: the event is redacted in place
EmitRedact(t) ==
    LET f == frames[t]
        schema == get(schema_registry[f.el], f.args.schema_name, f.args.version)
    IN  /\ f.pc = "redact"
        /\ Step(t, [f EXCEPT !.pc = "update",
                             !.event = enforce_redaction_policies(schema, f.event)])
        /\ UNCHANGED schema_registry

\* line 155: capsule.update(event)
EmitUpdate(t) ==
    LET f == frames[t] IN
    /\ f.pc = "update"
    /\ Step(t, [f EXCEPT !.pc = "info", !.k = 1,
                         !.capsule = Update(f.capsule, f.event)])
    /\ UNCHANGED schema_registry

\* line 156: Logger.info hands the record to the logger's handlers in turn;
\* each handler formats and writes it under its own lock
EmitInfo(t) ==
    LET f == frames[t]
        hdlrs == loggerDict[ident[f.el]]
    IN  /\ f.pc = "info"
        /\ Step(t, IF f.k > Len(hdlrs) THEN [f EXCEPT !.pc = "return"]
                   ELSE [f EXCEPT
                           !.k = f.k + 1,
                           !.delivered[hdlrs[f.k]] =
                               Append(@, _skip_message(log_record(f.capsule)))])
        /\ UNCHANGED schema_registry

\* line 157: return capsule
EmitReturn(t) ==
    LET f == frames[t] IN
    /\ f.pc = "return"
    /\ Step(t, [f EXCEPT !.pc = "done", !.returned = <<f.capsule>>])
    /\ UNCHANGED schema_registry

(***************************************************************************)
(* The specification                                                       *)
(***************************************************************************)
Init ==
    /\ life = [i \in Instances |-> "unborn"]
    /\ ident = [i \in Instances |-> NoId]
    /\ handlers = [i \in Instances |-> <<>>]
    /\ allowed_policies = [i \in Instances |-> {"all"}]
    /\ schema_registry = [i \in Instances |-> NotCreated]
    /\ loggerDict = [a \in ObjectIds |-> <<>>]
    /\ attached = [s \in Sinks |-> {}]
    /\ last = Call("none", "el0", <<>>)
    /\ frames = [t \in Threads |-> IdleFrame]

\* one logger used in full on the schemas of one id; another one, with a sink
\* of its own, lives and dies before or beside it
Next ==
    \/ \E hs \in SeqsUpTo(Sinks, MaxHandlers), ap \in AllowedPolicySets :
          Construct("el0", hs, ap)
    \/ Construct("el1", <<"handler1">>, {"all"})
    \/ \E i \in Instances : Discard(i)
    \/ \E ap \in AllowedPolicySets : set_allowed_policies("el0", ap)
    \/ \E d \in {x \in Documents : HasKey(x, "id") => ValueOf(x["id"]) = "test/test0"} :
          register_schema("el0", d)
    \/ \E f \in Files : register_schema_file("el0", f)
    \/ \E h \in Sinks : add_handler("el0", h)
    \/ \E h \in Sinks : remove_handler("el0", h)
    \/ \E id \in SchemaIds, v \in Versions, e \in Events :
          emit("el0", id, v, e, {}, DateTime(1, 0))

Spec == Init /\ [][Next]_vars

\* registration: one logger given every document and file, beside another
\* one that registers the schemas of test_unique_logger_instances
NextRegistry ==
    \/ \E ap \in AllowedPolicySets : Construct("el0", <<>>, ap)
    \/ Construct("el1", <<>>, {"all"})
    \/ \E ap \in AllowedPolicySets : set_allowed_policies("el0", ap)
    \/ \E d \in Documents : register_schema("el0", d)
    \/ \E id \in SchemaIds : register_schema("el1", Document(id, 1, PropsSomething))
    \/ \E f \in Files : register_schema_file("el0", f)

SpecRegistry == Init /\ [][NextRegistry]_vars

\* the schema each logger of test_unique_logger_instances registers
OwnSchema(i) == IF i = "el0" THEN "test/test0" ELSE "test/test1"

\* two loggers, each registering its own schema, over the two sinks; a logger
\* may be made after the other one was freed
NextInstances ==
    \/ \E i \in Instances, hs \in SeqsUpTo(Sinks, 1) : Construct(i, hs, {"all"})
    \/ \E i \in Instances : Discard(i)
    \/ \E i \in Instances : register_schema(i, Document(OwnSchema(i), 1, PropsSomething))
    \/ \E i \in Instances, h \in Sinks : add_handler(i, h)
    \/ \E i \in Instances, h \in Sinks : remove_handler(i, h)
    \/ \E i \in Instances, id \in SchemaIds :
          emit(i, id, 1, ("something" :> JStr("blah")), {}, DateTime(1, 0))

SpecInstances == Init /\ [][NextInstances]_vars

\* one logger emitting with and without a timestamp override, at either time
\* of the clock
NextTimestamp ==
    \/ \E hs \in SeqsUpTo(Sinks, MaxHandlers), ap \in AllowedPolicySets :
          Construct("el0", hs, ap)
    \/ \E id \in SchemaIds : register_schema("el0", Document(id, 1, PropsSomething))
    \/ \E id \in SchemaIds, e \in Events, now \in Clock,
          timestamp_override \in {{}} \cup {{t} : t \in Overrides} :
          emit("el0", id, 1, e, timestamp_override, now)

SpecTimestamp == Init /\ [][NextTimestamp]_vars

\* one logger is set up; then each thread calls emit once, with its own
\* event, and the calls run interleaved statement by statement
NextConcurrent ==
    \/ /\ Idle
       /\ \E hs \in SeqsUpTo(Sinks, MaxHandlers), ap \in AllowedPolicySets :
             Construct("el0", hs, ap)
    \/ /\ Idle
       /\ \E id \in SchemaIds : register_schema("el0", Document(id, 1, PropsStatus))
    \/ \E t \in Threads, id \in SchemaIds : \E e \in ThreadEvents(t) :
          EmitCall(t, "el0", id, 1, e)
    \/ \E t \in Threads : EmitGuard(t)
    \/ \E t \in Threads, now \in Clock : EmitCapsule(t, now)
    \/ \E t \in Threads : EmitValidate(t)
    \/ \E t \in Threads : EmitRedact(t)
    \/ \E t \in Threads : EmitUpdate(t)
    \/ \E t \in Threads : EmitInfo(t)
    \/ \E t \in Threads : EmitReturn(t)

SpecConcurrent == Init /\ [][NextConcurrent]_vars

\* every operation on one logger: registration from documents and files, sink
\* management and emits of events that pass, fail or skip validation
NextFrame ==
    \/ \E hs \in SeqsUpTo(Sinks, MaxHandlers), ap \in AllowedPolicySets :
          Construct("el0", hs, ap)
    \/ \E id \in SchemaIds :
          \E d \in {Document(id, 1, PropsStatus), Document(id, 1, PropsReserved)} :
             register_schema("el0", d)
    \/ \E f \in Files : register_schema_file("el0", f)
    \/ \E h \in Sinks : add_handler("el0", h)
    \/ \E h \in Sinks : remove_handler("el0", h)
    \/ \E id \in SchemaIds, e \in Events :
          emit("el0", id, 1, e, {}, DateTime(1, 0))

SpecFrame == Init /\ [][NextFrame]_vars

(***************************************************************************)
(* Properties                                                              *)
(***************************************************************************)
Emitted == last.op = "emit"

\* the registry of the logger of the last call, as emit found it
Registered ==
    contains(schema_registry[last.el], last.args.schema_name, last.args.version)

SchemaUsed ==
    get(schema_registry[last.el], last.args.schema_name, last.args.version)

NothingDone ==
    /\ last.raised = NoError
    /\ last.returned = <<>>
    /\ last.delivered = NoDelivery
    /\ last.steps = <<>>
    /\ last.event = last.args.event

\* C1: with no sink in the logger's list, emit raises nothing, returns nothing,
\* writes to no sink and neither validates nor redacts the event, whether or
\* not the schema is registered
C1_NoSinkNoop == (Emitted /\ handlers[last.el] = <<>>) => NothingDone

\* an emit without sinks on a registered schema, with an event that would not
\* validate, on a logger whose dispatch logger still holds a handler
C1_Witness ==
    /\ Emitted /\ handlers[last.el] = <<>>
    /\ Registered
    /\ validate(SchemaUsed, last.args.event) # NoError
    /\ loggerDict[ident[last.el]] # <<>>

\* C2: with a sink attached, emit on a key that is not registered raises
\* nothing (no lookup failure), returns nothing and writes to no sink
C2_UnregisteredNoop ==
    (Emitted /\ handlers[last.el] # <<>> /\ ~Registered) =>
        /\ last.raised = NoError
        /\ last.returned = <<>>
        /\ last.delivered = NoDelivery

\* an emit on an unregistered key of a logger that has sinks and other schemas
C2_Witness ==
    /\ Emitted /\ handlers[last.el] # <<>> /\ ~Registered
    /\ loggerDict[ident[last.el]] # <<>>
    /\ DOMAIN schema_registry[last.el].schemas # {}

Invalid == validate(SchemaUsed, last.args.event) # NoError

\* C3: with sinks and a registered schema, an event that fails validation makes
\* emit raise the validation error, complete and return no capsule, and write
\* to no sink
C3_ValidationError ==
    (Emitted /\ handlers[last.el] # <<>> /\ Registered /\ Invalid) =>
        /\ last.raised = "EventValidationError"
        /\ last.returned = <<>>
        /\ last.delivered = NoDelivery
        /\ ~Contains(last.steps, "update") /\ ~Contains(last.steps, "info")

\* the emit of test_emit_badschema: a status outside the enum, sinks attached
C3_Witness ==
    /\ Emitted /\ handlers[last.el] # <<>> /\ Registered /\ Invalid
    /\ loggerDict[ident[last.el]] # <<>>
    /\ HasKey(last.args.event, "status")
    /\ HasKey(SchemaUsed.properties, "status")
    /\ last.args.event["status"] \notin SchemaUsed.properties["status"].enum

\* the definition a registration call hands to the registry
Registering(call) ==
    call.op = "register_schema" \/ (call.op = "register_schema_file" /\ call.args.parses)

Given(call) == IF call.op = "register_schema" THEN call.args ELSE call.args.document

Keyed(d) ==
    /\ HasKey(d, "id") /\ TypeOf(d["id"]) = "string"
    /\ HasKey(d, "version") /\ TypeOf(d["version"]) = "integer"

SchemasOf(i) == schema_registry[i].schemas

\* C4: registering a definition whose (id, version) is already in the registry
\* fails, with the duplicate error when the definition is well formed (a
\* malformed one is refused by the definition check that comes first), and
\* leaves every key of the registry and the schema stored under it as they were
C4_DuplicateRejected ==
    [][ (/\ Registering(last') /\ Keyed(Given(last'))
         /\ KeyOf(Given(last')) \in DOMAIN SchemasOf(last'.el))
        => /\ last'.raised \in {"DuplicateSchemaError", "SchemaDefinitionError"}
           /\ Given(last') \in WellFormedDocuments
                  => last'.raised = "DuplicateSchemaError"
           /\ schema_registry'[last'.el].schemas = SchemasOf(last'.el) ]_vars

\* a second definition, with other properties than the first, was refused as a
\* duplicate and the first is still the one stored
C4_Witness ==
    /\ last.op = "register_schema" /\ last.raised = "DuplicateSchemaError"
    /\ DOMAIN SchemasOf(last.el)[KeyOf(last.args)].properties
           # DOMAIN PropertiesOf(last.args)
    /\ Cardinality(DOMAIN SchemasOf(last.el)) = 2

MissingIdOrVersion(d) == ~HasKey(d, "id") \/ ~HasKey(d, "version")

HasReservedProperty(d) == \E n \in DOMAIN PropertiesOf(d) : Reserved(n)

\* C5: registering a definition without id or version, or with a property under
\* the reserved prefix, fails with the registry's definition error and leaves
\* the registry's contents as they were
C5_MalformedRejected ==
    [][ (/\ Registering(last')
         /\ MissingIdOrVersion(Given(last')) \/ HasReservedProperty(Given(last')))
        => /\ last'.raised = "SchemaDefinitionError"
           /\ schema_registry'[last'.el].schemas = SchemasOf(last'.el) ]_vars

\* a definition with the property __fail__ was refused by a registry that
\* holds a schema
C5_Witness ==
    /\ last.op = "register_schema" /\ last.raised = "SchemaDefinitionError"
    /\ HasReservedProperty(last.args) /\ ~MissingIdOrVersion(last.args)
    /\ DOMAIN SchemasOf(last.el) # {}

Mirrors(schema, d) ==
    /\ schema.id = ValueOf(d["id"])
    /\ schema.version = ValueOf(d["version"])
    /\ schema.schemaRedactionPolicies = ValueOf(d["redactionPolicies"])
    /\ DOMAIN schema.properties = DOMAIN ValueOf(d["properties"])
    /\ \A n \in DOMAIN schema.properties :
          LET p == ValueOf(d["properties"])[n] IN
          /\ HasKey(p, "type") => schema.properties[n].type = ValueOf(p["type"])
          /\ HasKey(p, "enum") => schema.properties[n].enum = ValueOf(p["enum"])
          /\ HasKey(p, "redactionPolicies") =>
                 schema.properties[n].redactionPolicies = ValueOf(p["redactionPolicies"])

C7_Isolated ==
    /\ Emitted => \A s \in Sinks : last.delivered[s] # <<>> => last.el \in attached[s]
    /\ \A i \in Instances : \A k \in DOMAIN SchemasOf(i) : k[1] = OwnSchema(i)

Returned == last.returned[1]

ReservedFields ==
    {"__timestamp__", "__schema__", "__schema_version__", "__metadata_version__"}

\* C8: a successful emit returns the capsule of its schema id, its version,
\* metadata version 1 and a timestamp, the other fields being the event's
\* fields left by redaction, and every sink is written those same fields
C8_Capsule ==
    (Emitted /\ last.returned # <<>>) =>
        /\ ReservedFields \subseteq DOMAIN Returned
        /\ Returned["__schema__"] = JStr(last.args.schema_name)
        /\ Returned["__schema_version__"] = JInt(last.args.version)
        /\ Returned["__metadata_version__"] = JInt(1)
        /\ [n \in DOMAIN Returned \ ReservedFields |-> Returned[n]] = last.event
        /\ \A n \in DOMAIN last.event :
              HasKey(last.args.event, n) /\ last.event[n] = last.args.event[n]
        /\ \A s \in Sinks : \A n \in 1..Len(last.delivered[s]) :
              loads(last.delivered[s][n]) = Returned

Unallowed(n) ==
    /\ "all" \notin allowed_policies[last.el]
    /\ EffectivePolicies(SchemaUsed, n) \cap allowed_policies[last.el] = {}

\* C9: in a successful emit, a property of the event whose effective policies
\* miss the logger's allowed policies (which lack `all`) is not in the capsule,
\* and every other property of the event is, with its value
C9_Redaction ==
    (Emitted /\ last.returned # <<>>) =>
        \A n \in DOMAIN last.args.event :
            IF Unallowed(n) THEN ~HasKey(Returned, n)
            ELSE HasKey(Returned, n) /\ Returned[n] = last.args.event[n]

Range(seq) == {seq[n] : n \in 1..Len(seq)}

\* C10: a logger is unconfigured (no sink) or active: add_handler leaves it
\* active, removing its only sink leaves it unconfigured, an emit while
\* unconfigured does nothing, and an emit of a valid event of a registered
\* schema while active returns the capsule and writes it to the sinks
C10_Lifecycle ==
    /\ last.op = "add_handler" => handlers[last.el] # <<>>
    /\ (last.op = "remove_handler" /\ Range(handlers[last.el]) \subseteq {last.args})
           => handlers[last.el] = <<>>
    /\ (Emitted /\ handlers[last.el] = <<>>) => NothingDone
    /\ (Emitted /\ handlers[last.el] # <<>> /\ Registered /\ ~Invalid)
           => /\ last.returned # <<>>
              /\ \A s \in Range(handlers[last.el]) : last.delivered[s] # <<>>

\* the sinks the last call wrote to
Written == {s \in Sinks : last.delivered[s] # <<>>}

\* C11: an emit writes its capsule to every sink of the logger's list or to
\* none of them, never to some of them only
C11_NoPartialEmission ==
    Emitted => \/ Written = {}
               \/ ~(Written \subseteq Range(handlers[last.el]))
               \/ Written = Range(handlers[last.el])

\* C12: a schema that was registered and nothing more (the logger has no
\* operation that marks a schema as allowed) is not emitted: with a sink
\* attached, emit of a valid event of that schema writes nothing to a sink
C12_OnlyAllowedEmitted ==
    (Emitted /\ handlers[last.el] # <<>> /\ Registered /\ ~Invalid) =>
        last.delivered = NoDelivery

\* the lines the last call wrote, over all sinks
Lines == UNION {Range(last.delivered[s]) : s \in Sinks}

Stamp(t) == JStr(isoformat(t) \o "Z")

\* C13: the __timestamp__ of the capsule emit returns and of the lines it
\* writes is the override, in ISO format with a Z appended, when an override
\* is given, whatever the clock shows (it is not read then); without an
\* override it is the clock's time, in the same format
C13_TimestampOverride ==
    (Emitted /\ last.returned # <<>>) =>
        /\ \A t \in last.args.timestamp_override :
              /\ Returned["__timestamp__"] = Stamp(t)
              /\ \A l \in Lines : loads(l)["__timestamp__"] = Stamp(t)
              /\ last.utcnow = {}
        /\ last.args.timestamp_override = {} =>
              /\ last.utcnow # {}
              /\ \A now \in last.utcnow :
                    /\ Returned["__timestamp__"] = Stamp(now)
                    /\ \A l \in Lines : loads(l)["__timestamp__"] = Stamp(now)

\* the emit of test_timestamp_override: an override, with microseconds, and a
\* line written to a sink
C13_Witness ==
    /\ Emitted /\ last.returned # <<>> /\ Lines # {}
    /\ last.args.timestamp_override = {DateTime(0, 7)}
    /\ Returned["__timestamp__"] = JStr("2022-08-01T00:00:00.000007Z")

\* the step x of the last call comes before its step y
Before(x, y) ==
    \E m, n \in 1..Len(last.steps) :
        m < n /\ last.steps[m] = x /\ last.steps[n] = y

\* C14: an emit that passes its guard validates the event, then redacts it,
\* then writes the capsule: redaction comes only after validation, the write
\* only after both, and a validation failure ends the call with no property
\* taken out of the caller's event and nothing written
C14_Order ==
    (Emitted /\ last.steps # <<>>) =>
        /\ Contains(last.steps, "validate")
        /\ Contains(last.steps, "redact") => Before("validate", "redact")
        /\ Contains(last.steps, "info") =>
               Before("validate", "info") /\ Before("redact", "info")
        /\ last.raised = NoError =>
               Contains(last.steps, "redact") /\ Contains(last.steps, "info")
        /\ last.raised # NoError =>
               /\ last.event = last.args.event
               /\ ~Contains(last.steps, "redact") /\ ~Contains(last.steps, "info")
               /\ last.delivered = NoDelivery

\* an emit failed validation on an event from which redaction would have
\* taken a property out
C14_Witness ==
    /\ Emitted /\ last.raised = "EventValidationError"
    /\ last.event = last.args.event
    /\ enforce_redaction_policies(SchemaUsed, last.args.event) # last.args.event
    /\ loggerDict[ident[last.el]] # <<>>

\* the event as redaction under the policy set `allowed` leaves it
RedactedUnder(allowed) ==
    [n \in {m \in DOMAIN last.args.event : Retained(SchemaUsed, m, allowed)}
        |-> last.args.event[n]]

\* C15: the redaction of an emit goes by the logger's allowed policies as they
\* are when emit is called, also when they were replaced after the registry
\* was made or after the schema was registered
C15_CurrentPolicies ==
    (Emitted /\ last.returned # <<>>) =>
        last.event = RedactedUnder(allowed_policies[last.el])

\* the time the last emit stamped its capsule with
Stamped == last.args.timestamp_override \cup last.utcnow

\* the reserved fields as emit sets them for its arguments
Header(d) ==
    /\ ReservedFields \subseteq DOMAIN d
    /\ \E t \in Stamped : d["__timestamp__"] = Stamp(t)
    /\ d["__schema__"] = JStr(last.args.schema_name)
    /\ d["__schema_version__"] = JInt(last.args.version)
    /\ d["__metadata_version__"] = JInt(EVENTS_METADATA_VERSION)

HasReservedKey(event) == \E n \in DOMAIN event : Reserved(n)

\* C16: the four reserved fields of every capsule emit returns or writes are
\* the ones the logger set from the call's schema name, version and time; an
\* event with a key under the reserved prefix is never merged into a capsule
C16_ReservedFields ==
    Emitted =>
        /\ last.returned # <<>> => Header(Returned)
        /\ \A l \in Lines : Header(loads(l))
        /\ HasReservedKey(last.args.event) =>
               /\ last.returned = <<>> /\ Lines = {}
               /\ ~Contains(last.steps, "update")

\* an event with the key __schema__ was refused on a registered schema whose
\* other property it fits, sinks attached
C16_Witness ==
    /\ Emitted /\ handlers[last.el] # <<>> /\ Registered
    /\ loggerDict[ident[last.el]] # <<>>
    /\ HasKey(last.args.event, "__schema__")
    /\ last.args.event["__schema__"] # JStr(last.args.schema_name)
    /\ validate(SchemaUsed, Without(last.args.event, "__schema__")) = NoError
    /\ last.raised = "EventValidationError"

\* what the emit call of frame f does when it runs alone on the logger
Alone(f) ==
    LET registry == _default_schema_registry(f.el) IN
    IF NothingToDo(handlers[f.el], registry, f.args.schema_name, f.args.version)
    THEN Noop(f.args.event)
    ELSE Process(registry, loggerDict[ident[f.el]], f.args.schema_name,
                 f.args.version, f.args.event,
                 Timestamp(f.args.timestamp_override, CHOOSE now \in f.now : TRUE))

\* the call of frame f has written and, once done, returned what `out` says
SameOutcome(f, out) ==
    /\ f.raised = out.raised
    /\ f.event = out.event
    /\ f.delivered = out.delivered
    /\ f.pc = "done" => f.returned = out.returned
    /\ f.pc = "return" => <<f.capsule>> = out.returned

\* C17: once the logger is set up, emit calls of several threads on it, each
\* with its own event, run interleaved leave the sink list, the dispatch
\* logger's handlers and the registry's schemas as they were, and each call
\* raises, returns and writes to the sinks what it would alone
C17_ConcurrentEmits ==
    [][ frames' # frames =>
          /\ handlers' = handlers
          /\ loggerDict' = loggerDict
          /\ \A i \in Instances : schema_registry'[i].schemas = SchemasOf(i)
          /\ \A t \in Threads :
                frames'[t].pc \in {"return", "done"} =>
                    SameOutcome(frames'[t], Alone(frames'[t])) ]_vars

\* two calls under way at once, both about to return: capsules of different
\* schemas and times, each written to two sinks, after redaction took a
\* property out of both events
C17_Witness ==
    /\ \A t \in Threads : frames[t].pc = "return" /\ frames[t].k = 3
    /\ frames["t1"].args.schema_name # frames["t2"].args.schema_name
    /\ frames["t1"].now # frames["t2"].now
    /\ frames["t1"].capsule # frames["t2"].capsule
    /\ \A t \in Threads : frames[t].event # frames[t].args.event
    /\ \A t \in Threads : \A s \in Sinks :
          frames[t].delivered[s] = <<_skip_message(log_record(frames[t].capsule))>>

NoRepeat(seq) == Cardinality(Range(seq)) = Len(seq)

\* C18: the sink list of a live logger and the handlers of its dispatch
\* logger hold the same sinks, each once; an emit writes at most one record
\* to a sink, and none to a sink that is not (or no longer) in the list
C18_SinksInStep ==
    /\ \A i \in Instances :
          Alive(i) =>
              /\ Range(handlers[i]) = Range(loggerDict[ident[i]])
              /\ NoRepeat(handlers[i]) /\ NoRepeat(loggerDict[ident[i]])
    /\ Emitted =>
          \A s \in Sinks :
              /\ Len(last.delivered[s]) <= 1
              /\ last.delivered[s] # <<>> => Contains(handlers[last.el], s)

\* C19: emit, whether it does nothing, raises or returns a capsule, leaves
\* the keys and schemas of every registry and every sink list as they were;
\* registration leaves the sink lists and the dispatch loggers' handlers as
\* they were; add_handler and remove_handler leave the registries as they were
C19_Frame ==
    [][ /\ last'.op = "emit" =>
              /\ \A i \in Instances : schema_registry'[i].schemas = SchemasOf(i)
              /\ handlers' = handlers
              /\ loggerDict' = loggerDict
        /\ last'.op \in {"register_schema", "register_schema_file"} =>
              handlers' = handlers /\ loggerDict' = loggerDict
        /\ last'.op \in {"add_handler", "remove_handler"} =>
              schema_registry' = schema_registry ]_vars

\* an emit returned a capsule, having written it and redacted its event, on a
\* logger that holds a schema and two sinks
C19_Witness ==
    /\ Emitted /\ last.returned # <<>> /\ Lines # {}
    /\ last.event # last.args.event
    /\ Len(handlers[last.el]) = 2
    /\ <<last.args.schema_name, last.args.version>> \in DOMAIN SchemasOf(last.el)

====
